---- MODULE Spec2Model ----
(***************************************************************************)
(* Connection-and-dispatch engine of the fleet telemetry server            *)
(* (server/streaming/server.go): identity extraction, the WebSocket        *)
(* connection handler, the connectivity emitter and the ack router.        *)
(***************************************************************************)
EXTENDS Integers, Sequences, FiniteSets, TLC

\* ------------------------------------------------------------------ bounds
MaxConns == 1      \* connection handlers running concurrently
MaxFrames == 1     \* telemetry frames read per connection
MaxAcks == 2       \* records the sinks post on the ack channel
MaxChain == 2      \* certificates in a peer chain / a PEM block

Conns == 1..MaxConns

\* ------------------------------------------------------- identity extractor

\* config.TLSPassThrough: nil (direct TLS) or one of the two header modes
DirectTLS == "direct_tls"
RFC9440 == "RFC9440"
AWSApplicationLoadBalancer == "AWSApplicationLoadBalancer"
TLSModes == {DirectTLS, RFC9440, AWSApplicationLoadBalancer}

\* x509 certificates, reduced to the two names the engine reads
Issuers == {"vehicle_device_ca", "unknown_ca"}
Subjects == {"VIN1"}
Certs == [issuer : Issuers, subject : Subjects]

CertChains == UNION {[1..n -> Certs] : n \in 0..MaxChain}

\* A header value: how it is encoded on the wire and what the encoding holds.
\* pem = FALSE: the decoded bytes hold no PEM block; der = "garbage": the
\* block's bytes are no DER certificate list.
NoHeader == [present |-> FALSE, encoding |-> "", pem |-> FALSE, der |-> "garbage", certs |-> <<>>]
HeaderEncodings == {"base64", "urlescape", "invalid"}
HeaderValues ==
    {[present |-> TRUE, encoding |-> e, pem |-> FALSE, der |-> "garbage", certs |-> <<>>] :
        e \in HeaderEncodings}
    \cup {[present |-> TRUE, encoding |-> e, pem |-> TRUE, der |-> "garbage", certs |-> <<>>] :
        e \in {"base64", "urlescape"}}
    \cup {[present |-> TRUE, encoding |-> e, pem |-> TRUE, der |-> "ok", certs |-> ch] :
        e \in {"base64", "urlescape"}, ch \in CertChains}

\* An inbound request: the TLS peer chain and the two pass-through headers.
Requests ==
    {[peer |-> ch, chainHeader |-> NoHeader, albHeader |-> NoHeader] : ch \in CertChains}
    \cup {[peer |-> <<>>, chainHeader |-> h, albHeader |-> NoHeader] : h \in HeaderValues}
    \cup {[peer |-> <<>>, chainHeader |-> NoHeader, albHeader |-> h] : h \in HeaderValues}

NoCert == [issuer |-> "", subject |-> ""]
NoIdentity == [isNil |-> TRUE, DeviceID |-> "", SenderID |-> ""]

\* results of the extractors: kind is "ok", an error kind, or "panic"
CertOk(c) == [kind |-> "ok", cert |-> c]
CertErr(k) == [kind |-> k, cert |-> NoCert]

\* base64.StdEncoding.DecodeString: fails on anything that is not base64
Base64Decodes(h) == h.encoding = "base64"

\* url.QueryUnescape: fails on an invalid escape; base64 text holds no escape,
\* passes unchanged and is no PEM text
QueryUnescapes(h) == h.encoding # "invalid"
UnescapedHasPEM(h) == h.encoding = "urlescape" /\ h.pem

\* pem.Decode + x509.ParseCertificates + certs[0] on the decoded bytes.
\* ParseCertificates returns an empty list and no error for an empty block,
\* and certs[0] is then an index out of range.
FirstCertOfBlock(hasPEM, h) ==
    IF ~hasPEM THEN CertErr("parse_certificate")
    ELSE IF h.der # "ok" THEN CertErr("parse_certificate")
    ELSE IF Len(h.certs) = 0 THEN CertErr("panic")
    ELSE CertOk(h.certs[1])

extractCertRFC2440(r) ==
    LET h == r.chainHeader IN
    IF ~h.present THEN CertErr("missing_certificate")
    ELSE IF ~Base64Decodes(h) THEN CertErr("parse_certificate")
    ELSE FirstCertOfBlock(h.pem, h)

extractCertAWSALB(r) ==
    LET h == r.albHeader IN
    IF ~h.present THEN CertErr("missing_certificate")
    ELSE IF ~QueryUnescapes(h) THEN CertErr("parse_certificate")
    ELSE FirstCertOfBlock(UnescapedHasPEM(h), h)

extractCertFromTLS(r) ==
    LET nbCerts == Len(r.peer) IN
    IF nbCerts = 0 THEN CertErr("missing_certificate")
    ELSE CertOk(r.peer[nbCerts])

\* messages.CreateIdentityFromCert: client type from the issuer common name,
\* device id from the subject common name; an unknown issuer is an error
ClientTypeOf(issuer) == IF issuer = "vehicle_device_ca" THEN "vehicle_device" ELSE ""
CreateIdentityFromCert(cert) ==
    IF ClientTypeOf(cert.issuer) = ""
    THEN [ok |-> FALSE, clientType |-> "", deviceID |-> ""]
    ELSE [ok |-> TRUE, clientType |-> ClientTypeOf(cert.issuer), deviceID |-> cert.subject]

IdResult(k, id) == [kind |-> k, identity |-> id]

extractIdentity(r, mode) ==
    LET res == IF mode = RFC9440 THEN extractCertRFC2440(r)
               ELSE IF mode = AWSApplicationLoadBalancer THEN extractCertAWSALB(r)
               ELSE extractCertFromTLS(r)
    IN  IF res.kind # "ok" THEN IdResult(res.kind, NoIdentity)
        ELSE LET ci == CreateIdentityFromCert(res.cert) IN
             IF ~ci.ok THEN IdResult("create_identity", NoIdentity)
             ELSE IdResult("identity",
                           [isNil |-> FALSE,
                            DeviceID |-> ci.deviceID,
                            SenderID |-> ci.clientType \o "." \o ci.deviceID])

\* ------------------------------------------------------------ configuration

connectitivityTopic == "connectivity"

\* records: topic -> ordered producers. One configuration carries the
\* connectivity topic, the other omits it.
RulesWithConnectivity ==
    [t \in {"V", connectitivityTopic} |-> <<"kafka", "logger">>]
RulesWithoutConnectivity ==
    [t \in {"V"} |-> <<"kafka", "logger">>]

\* reliable_ack_sources of the configuration: tx type -> dispatcher; the Go
\* map yields the empty string for a tx type it does not hold
TxTypes == {"V", connectitivityTopic}
ReliableAckSource(txType) == IF txType = "V" THEN "kafka" ELSE ""
Labels(txType) == <<txType, ReliableAckSource(txType)>>
LabelSet == {Labels(t) : t \in TxTypes}

CONNECTED == "CONNECTED"
DISCONNECTED == "DISCONNECTED"
Telemetry == "V"

\* ----------------------------------------------------------------- state

VARIABLES
    tlsMode,        \* config.TLSPassThrough
    DispatchRules,  \* Server.DispatchRules
    pc,             \* position of each connection handler (ServeBinaryWs)
    upgraded,       \* the WebSocket upgrade of the request completed
    idKind,         \* outcome of extractIdentity for the request
    identity,       \* SocketManager.requestIdentity
    events,         \* per connection: records handed to producers, in order
    frames,         \* telemetry frames read by ProcessTelemetry
    connErrors,     \* connectivity_(de)registeration_error log entries
    registry,       \* SocketRegistry: UUID -> socket manager
    ackChan,        \* Server.ackChan
    ackPosted,      \* records posted on the ack channel so far
    routerPc,       \* position of handleAcks
    routerRec,      \* record handleAcks is working on
    routerSocket,   \* socket GetSocket returned to handleAcks
    reliableAckCount,      \* metric reliable_ack
    reliableAckMissCount,  \* metric reliable_ack_miss
    respondCalls,   \* respondToVehicle calls made on each socket
    respondActive,  \* respondToVehicle calls in progress on each socket
    shutdown,       \* the process was asked to shut down
    idReq,          \* extractIdentity on its own: the request
    idResult        \* extractIdentity on its own: its result

vars == <<tlsMode, DispatchRules, pc, upgraded, idKind, identity, events, frames,
          connErrors, registry, ackChan, ackPosted, routerPc, routerRec,
          routerSocket, reliableAckCount, reliableAckMissCount,
          respondCalls, respondActive, shutdown, idReq, idResult>>

connVars == <<pc, upgraded, idKind, identity, events, frames, connErrors>>
ackVars == <<ackChan, ackPosted, routerPc, routerRec, routerSocket,
             reliableAckCount, reliableAckMissCount, respondCalls, respondActive>>
cfgVars == <<tlsMode, DispatchRules, shutdown>>
idVars == <<idReq, idResult>>

\* sm.UUID: a fresh uuid per socket manager
UUIDOf(c) == c
UUIDs == {UUIDOf(c) : c \in Conns}

\* ---------------------------------------------------------- socket registry
NoSocket == 0

RegisterSocket(reg, sm) == [reg EXCEPT ![UUIDOf(sm)] = sm]
DeregisterSocket(reg, sm) == [reg EXCEPT ![UUIDOf(sm)] = NoSocket]
GetSocket(reg, uuid) == reg[uuid]

NoRecord == [SocketID |-> NoSocket, TxType |-> "", Serializer |-> FALSE, status |-> ""]
NoRequest == [peer |-> <<>>, chainHeader |-> NoHeader, albHeader |-> NoHeader]
NoResult == IdResult("pending", NoIdentity)

Init ==
    /\ tlsMode \in TLSModes
    /\ DispatchRules \in {RulesWithConnectivity, RulesWithoutConnectivity}
    /\ pc = [c \in Conns |-> "init"]
    /\ upgraded = [c \in Conns |-> FALSE]
    /\ idKind = [c \in Conns |-> "pending"]
    /\ identity = [c \in Conns |-> NoIdentity]
    /\ events = [c \in Conns |-> <<>>]
    /\ frames = [c \in Conns |-> 0]
    /\ connErrors = [c \in Conns |-> 0]
    /\ registry = [u \in UUIDs |-> NoSocket]
    /\ ackChan = <<>>
    /\ ackPosted = 0
    /\ routerPc = "recv"
    /\ routerRec = NoRecord
    /\ routerSocket = NoSocket
    /\ reliableAckCount = [l \in LabelSet |-> 0]
    /\ reliableAckMissCount = [l \in LabelSet |-> 0]
    /\ respondCalls = [c \in Conns |-> 0]
    /\ respondActive = [c \in Conns |-> 0]
    /\ shutdown = FALSE
    /\ idReq = NoRequest
    /\ idResult = NoResult

\* ------------------------------------------------------ connectivity emitter

\* outcomes of building the record: proto.Marshal, StreamMessage.ToBytes and
\* telemetry.NewRecord each may return an error
BuildOutcomes == {"ok", "marshal_error", "to_bytes_error", "new_record_error"}

Produced(kind, producer) == [kind |-> kind, producer |-> producer]

\* (variant) every dispatcher is handed the record twice
ProduceAllTwice(kind, producers) ==
    [i \in 1..(2 * Len(producers)) |-> Produced(kind, producers[((i - 1) \div 2) + 1])]

\* (variant) the dispatchers of the list are called last to first
ProduceAllReversed(kind, producers) ==
    [i \in 1..Len(producers) |-> Produced(kind, producers[Len(producers) + 1 - i])]

\* dispatcher.Produce(record) for each dispatcher of the list, in order
ProduceAll(kind, producers) ==
    [i \in 1..Len(producers) |-> Produced(kind, producers[i])]

\* (variant) the lookup of the connectivity topic is not checked: the event
\* goes to the producers of the telemetry topic when the rules omit it
dispatchWithoutTopicCheck(sm, event, build) ==
    IF identity[sm].isNil
    THEN [ret |-> "panic", produced |-> <<>>]
    ELSE IF build # "ok"
    THEN [ret |-> "error", produced |-> <<>>]
    ELSE [ret |-> "nil",
          produced |-> ProduceAll(event,
                                  IF connectitivityTopic \in DOMAIN DispatchRules
                                  THEN DispatchRules[connectitivityTopic]
                                  ELSE DispatchRules[Telemetry])]

\* (variant) the first dispatcher is handed a record before the build error
\* is returned
dispatchPartialOnError(sm, event, build) ==
    IF connectitivityTopic \notin DOMAIN DispatchRules
    THEN [ret |-> "nil", produced |-> <<>>]
    ELSE IF identity[sm].isNil
    THEN [ret |-> "panic", produced |-> <<>>]
    ELSE IF build # "ok"
    THEN [ret |-> "error",
          produced |-> SubSeq(ProduceAll(event, DispatchRules[connectitivityTopic]), 1, 1)]
    ELSE [ret |-> "nil",
          produced |-> ProduceAll(event, DispatchRules[connectitivityTopic])]

\* ret: "nil" (no error), "error" (an error is returned) or "panic" (the nil
\* requestIdentity of the socket manager is dereferenced)
dispatchConnectivityEvent(sm, event, build) ==
    IF connectitivityTopic \notin DOMAIN DispatchRules
    THEN [ret |-> "nil", produced |-> <<>>]
    ELSE IF identity[sm].isNil
    THEN [ret |-> "panic", produced |-> <<>>]
    ELSE IF build # "ok"
    THEN [ret |-> "error", produced |-> <<>>]
    ELSE [ret |-> "nil",
          produced |-> ProduceAll(event, DispatchRules[connectitivityTopic])]

\* -------------------------------------------------- ServeBinaryWs, per request

\* (variant) the handler goes on although promoteToWebsocket returned nil
UpgradeIgnoresFailure(c) ==
    /\ pc[c] = "init"
    /\ \E ok \in BOOLEAN :
          /\ upgraded' = [upgraded EXCEPT ![c] = ok]
          /\ pc' = [pc EXCEPT ![c] = "upgraded"]
    /\ UNCHANGED <<idKind, identity, events, frames, connErrors>>
    /\ UNCHANGED <<cfgVars, registry, ackVars, idVars>>

\* promoteToWebsocket: the upgrade succeeds, or fails and the handler returns
Upgrade(c) ==
    /\ pc[c] = "init"
    /\ \E ok \in BOOLEAN :
          /\ upgraded' = [upgraded EXCEPT ![c] = ok]
          /\ pc' = [pc EXCEPT ![c] = IF ok THEN "upgraded" ELSE "returned"]
    /\ UNCHANGED <<idKind, identity, events, frames, connErrors>>
    /\ UNCHANGED <<cfgVars, registry, ackVars, idVars>>

\* what the handler distinguishes of extractIdentity's result: an identity,
\* an error (err != nil, whatever its kind) or a panic
HandlerView(kind) ==
    IF kind \in {"identity", "panic"} THEN kind ELSE "error"

\* extractIdentity on the upgraded request; an error is logged and the
\* handler goes on with a nil identity (NewBinarySerializer, NewSocketManager)
ExtractIdentityStep(c) ==
    /\ pc[c] = "upgraded"
    /\ \E r \in Requests :
          LET res == extractIdentity(r, tlsMode) IN
          /\ idKind' = [idKind EXCEPT ![c] = HandlerView(res.kind)]
          /\ identity' = [identity EXCEPT ![c] = res.identity]
          /\ pc' = [pc EXCEPT ![c] = IF res.kind = "panic" THEN "panicked" ELSE "created"]
    /\ UNCHANGED <<upgraded, events, frames, connErrors>>
    /\ UNCHANGED <<cfgVars, registry, ackVars, idVars>>

\* (variant) registerSocket dispatches CONNECTED without registering first
RegisterSocketStepSkips(c) ==
    /\ pc[c] = "created"
    /\ pc' = [pc EXCEPT ![c] = "registering"]
    /\ UNCHANGED <<upgraded, idKind, identity, events, frames, connErrors>>
    /\ UNCHANGED <<cfgVars, registry, ackVars, idVars>>

\* registerSocket, first statement: s.registry.RegisterSocket(sm)
RegisterSocketStep(c) ==
    /\ pc[c] = "created"
    /\ registry' = RegisterSocket(registry, c)
    /\ pc' = [pc EXCEPT ![c] = "registering"]
    /\ UNCHANGED <<upgraded, idKind, identity, events, frames, connErrors>>
    /\ UNCHANGED <<cfgVars, ackVars, idVars>>

\* (variant) an error of the CONNECTED dispatch ends the handler
DispatchConnectedAbortsOnError(c) ==
    /\ pc[c] = "registering"
    /\ \E build \in BuildOutcomes :
          LET d == dispatchConnectivityEvent(c, CONNECTED, build) IN
          /\ events' = [events EXCEPT ![c] = @ \o d.produced]
          /\ connErrors' = [connErrors EXCEPT ![c] = IF d.ret = "error" THEN @ + 1 ELSE @]
          /\ pc' = [pc EXCEPT ![c] = IF d.ret = "panic" THEN "panicked"
                                     ELSE IF d.ret = "error" THEN "returned"
                                     ELSE "running"]
    /\ UNCHANGED <<upgraded, idKind, identity, frames>>
    /\ UNCHANGED <<cfgVars, registry, ackVars, idVars>>

\* registerSocket, rest: dispatch CONNECTED, log an error; then the handler
\* defers deregisterSocket and enters ProcessTelemetry. A panic here unwinds
\* the handler before the defer statement is reached.
DispatchConnected(c) ==
    /\ pc[c] = "registering"
    /\ \E build \in BuildOutcomes :
          LET d == dispatchConnectivityEvent(c, CONNECTED, build) IN
          /\ events' = [events EXCEPT ![c] = @ \o d.produced]
          /\ connErrors' = [connErrors EXCEPT ![c] = IF d.ret = "error" THEN @ + 1 ELSE @]
          /\ pc' = [pc EXCEPT ![c] = IF d.ret = "panic" THEN "panicked" ELSE "running"]
    /\ UNCHANGED <<upgraded, idKind, identity, frames>>
    /\ UNCHANGED <<cfgVars, registry, ackVars, idVars>>

\* ProcessTelemetry: one binary frame is decoded and its record is handed to
\* the producers of its topic
ReadFrame(c) ==
    /\ pc[c] = "running"
    /\ frames[c] < MaxFrames
    /\ frames' = [frames EXCEPT ![c] = @ + 1]
    /\ events' = [events EXCEPT ![c] = @ \o ProduceAll(Telemetry, DispatchRules[Telemetry])]
    /\ UNCHANGED <<pc, upgraded, idKind, identity, connErrors>>
    /\ UNCHANGED <<cfgVars, registry, ackVars, idVars>>

\* ProcessTelemetry ends: the peer closed, a read failed, or it panicked; in
\* each case the deferred deregisterSocket runs next
ExitLoop(c) ==
    /\ pc[c] = "running"
    /\ pc' = [pc EXCEPT ![c] = "deregistering"]
    /\ UNCHANGED <<upgraded, idKind, identity, events, frames, connErrors>>
    /\ UNCHANGED <<cfgVars, registry, ackVars, idVars>>

\* (variant) deregisterSocket leaves the registry as it is
DeregisterSocketStepKeeps(c) ==
    /\ pc[c] = "deregistering"
    /\ pc' = [pc EXCEPT ![c] = "disconnecting"]
    /\ UNCHANGED <<upgraded, idKind, identity, events, frames, connErrors>>
    /\ UNCHANGED <<cfgVars, registry, ackVars, idVars>>

\* deregisterSocket, first statement: s.registry.DeregisterSocket(sm)
DeregisterSocketStep(c) ==
    /\ pc[c] = "deregistering"
    /\ registry' = DeregisterSocket(registry, c)
    /\ pc' = [pc EXCEPT ![c] = "disconnecting"]
    /\ UNCHANGED <<upgraded, idKind, identity, events, frames, connErrors>>
    /\ UNCHANGED <<cfgVars, ackVars, idVars>>

\* (variant) deregisterSocket dispatches the CONNECTED event
DispatchDisconnectedSendsConnected(c) ==
    /\ pc[c] = "disconnecting"
    /\ \E build \in BuildOutcomes :
          LET d == dispatchConnectivityEvent(c, CONNECTED, build) IN
          /\ events' = [events EXCEPT ![c] = @ \o d.produced]
          /\ connErrors' = [connErrors EXCEPT ![c] = IF d.ret = "error" THEN @ + 1 ELSE @]
          /\ pc' = [pc EXCEPT ![c] = IF d.ret = "panic" THEN "panicked" ELSE "returned"]
    /\ UNCHANGED <<upgraded, idKind, identity, frames>>
    /\ UNCHANGED <<cfgVars, registry, ackVars, idVars>>

\* deregisterSocket, rest: dispatch DISCONNECTED, log an error; the handler ends
DispatchDisconnected(c) ==
    /\ pc[c] = "disconnecting"
    /\ \E build \in BuildOutcomes :
          LET d == dispatchConnectivityEvent(c, DISCONNECTED, build) IN
          /\ events' = [events EXCEPT ![c] = @ \o d.produced]
          /\ connErrors' = [connErrors EXCEPT ![c] = IF d.ret = "error" THEN @ + 1 ELSE @]
          /\ pc' = [pc EXCEPT ![c] = IF d.ret = "panic" THEN "panicked" ELSE "returned"]
    /\ UNCHANGED <<upgraded, idKind, identity, frames>>
    /\ UNCHANGED <<cfgVars, registry, ackVars, idVars>>

\* ------------------------------------------------------------------- sinks

\* tx type of a record: telemetry records carry "V", connectivity records
\* the connectivity topic
TxTypeOf(kind) == IF kind = Telemetry THEN "V" ELSE connectitivityTopic

AckRecord(uuid, txType, serializer, status) ==
    [SocketID |-> uuid, TxType |-> txType, Serializer |-> serializer, status |-> status]

\* a sink acknowledges a record it was handed: the record, which carries its
\* serializer and the UUID of its socket, is posted on the ack channel
SinkAck(c) ==
    /\ ackPosted < MaxAcks
    /\ \E i \in 1..Len(events[c]) :
          ackChan' = Append(ackChan,
                            AckRecord(UUIDOf(c), TxTypeOf(events[c][i].kind), TRUE,
                                      events[c][i].kind))
    /\ ackPosted' = ackPosted + 1
    /\ UNCHANGED <<routerPc, routerRec, routerSocket, reliableAckCount,
                   reliableAckMissCount, respondCalls, respondActive>>
    /\ UNCHANGED <<cfgVars, connVars, registry, idVars>>

\* a sink posts a record that carries no serializer
MalformedAck ==
    /\ ackPosted < MaxAcks
    /\ \E u \in UUIDs :
          ackChan' = Append(ackChan, AckRecord(u, Telemetry, FALSE, ""))
    /\ ackPosted' = ackPosted + 1
    /\ UNCHANGED <<routerPc, routerRec, routerSocket, reliableAckCount,
                   reliableAckMissCount, respondCalls, respondActive>>
    /\ UNCHANGED <<cfgVars, connVars, registry, idVars>>

\* ------------------------------------------------------------- handleAcks

\* (variant) the miss counter is incremented for every record with a
\* serializer, also when its socket is found
HandleAckRecvCountsBoth ==
    /\ routerPc = "recv"
    /\ ackChan # <<>>
    /\ LET record == Head(ackChan)
           labels == Labels(record.TxType)
           socket == GetSocket(registry, record.SocketID)
       IN  /\ ackChan' = Tail(ackChan)
           /\ IF ~record.Serializer
              THEN UNCHANGED <<routerPc, routerRec, routerSocket, reliableAckCount,
                               reliableAckMissCount>>
              ELSE /\ reliableAckMissCount' = [reliableAckMissCount EXCEPT ![labels] = @ + 1]
                   /\ IF socket # NoSocket
                      THEN /\ reliableAckCount' = [reliableAckCount EXCEPT ![labels] = @ + 1]
                           /\ routerPc' = "respond"
                           /\ routerRec' = record
                           /\ routerSocket' = socket
                      ELSE UNCHANGED <<routerPc, routerRec, routerSocket, reliableAckCount>>
    /\ UNCHANGED <<ackPosted, respondCalls, respondActive>>
    /\ UNCHANGED <<cfgVars, connVars, registry, idVars>>

\* (variant) a record whose socket is not found is dropped without a count
HandleAckRecvDropsMiss ==
    /\ routerPc = "recv"
    /\ ackChan # <<>>
    /\ LET record == Head(ackChan)
           labels == Labels(record.TxType)
           socket == GetSocket(registry, record.SocketID)
       IN  /\ ackChan' = Tail(ackChan)
           /\ IF record.Serializer /\ socket # NoSocket
              THEN /\ reliableAckCount' = [reliableAckCount EXCEPT ![labels] = @ + 1]
                   /\ routerPc' = "respond"
                   /\ routerRec' = record
                   /\ routerSocket' = socket
                   /\ UNCHANGED reliableAckMissCount
              ELSE UNCHANGED <<routerPc, routerRec, routerSocket, reliableAckCount,
                               reliableAckMissCount>>
    /\ UNCHANGED <<ackPosted, respondCalls, respondActive>>
    /\ UNCHANGED <<cfgVars, connVars, registry, idVars>>

\* (variant) the record is read but left at the head of the channel
HandleAckRecvPeeks ==
    /\ routerPc = "recv"
    /\ ackChan # <<>>
    /\ LET record == Head(ackChan)
           labels == Labels(record.TxType)
           socket == GetSocket(registry, record.SocketID)
       IN  /\ ackChan' = ackChan
           /\ IF ~record.Serializer
              THEN UNCHANGED <<routerPc, routerRec, routerSocket, reliableAckCount,
                               reliableAckMissCount>>
              ELSE IF socket # NoSocket
              THEN /\ reliableAckCount' = [reliableAckCount EXCEPT ![labels] = @ + 1]
                   /\ routerPc' = "respond"
                   /\ routerRec' = record
                   /\ routerSocket' = socket
                   /\ UNCHANGED reliableAckMissCount
              ELSE /\ reliableAckMissCount' = [reliableAckMissCount EXCEPT ![labels] = @ + 1]
                   /\ UNCHANGED <<routerPc, routerRec, routerSocket, reliableAckCount>>
    /\ UNCHANGED <<ackPosted, respondCalls, respondActive>>
    /\ UNCHANGED <<cfgVars, connVars, registry, idVars>>

\* (variant) the serializer of the record is not tested
HandleAckRecvIgnoresSerializer ==
    /\ routerPc = "recv"
    /\ ackChan # <<>>
    /\ LET record == Head(ackChan)
           labels == Labels(record.TxType)
           socket == GetSocket(registry, record.SocketID)
       IN  /\ ackChan' = Tail(ackChan)
           /\ IF socket # NoSocket
              THEN /\ reliableAckCount' = [reliableAckCount EXCEPT ![labels] = @ + 1]
                   /\ routerPc' = "respond"
                   /\ routerRec' = record
                   /\ routerSocket' = socket
                   /\ UNCHANGED reliableAckMissCount
              ELSE /\ reliableAckMissCount' = [reliableAckMissCount EXCEPT ![labels] = @ + 1]
                   /\ UNCHANGED <<routerPc, routerRec, routerSocket, reliableAckCount>>
    /\ UNCHANGED <<ackPosted, respondCalls, respondActive>>
    /\ UNCHANGED <<cfgVars, connVars, registry, idVars>>

\* (variant) a record whose tx type has no reliable-ack source is skipped
HandleAckRecvNeedsSource ==
    /\ routerPc = "recv"
    /\ ackChan # <<>>
    /\ LET record == Head(ackChan)
           labels == Labels(record.TxType)
           socket == GetSocket(registry, record.SocketID)
       IN  /\ ackChan' = Tail(ackChan)
           /\ IF ~record.Serializer \/ ReliableAckSource(record.TxType) = ""
              THEN UNCHANGED <<routerPc, routerRec, routerSocket, reliableAckCount,
                               reliableAckMissCount>>
              ELSE IF socket # NoSocket
              THEN /\ reliableAckCount' = [reliableAckCount EXCEPT ![labels] = @ + 1]
                   /\ routerPc' = "respond"
                   /\ routerRec' = record
                   /\ routerSocket' = socket
                   /\ UNCHANGED reliableAckMissCount
              ELSE /\ reliableAckMissCount' = [reliableAckMissCount EXCEPT ![labels] = @ + 1]
                   /\ UNCHANGED <<routerPc, routerRec, routerSocket, reliableAckCount>>
    /\ UNCHANGED <<ackPosted, respondCalls, respondActive>>
    /\ UNCHANGED <<cfgVars, connVars, registry, idVars>>

\* one iteration of the loop up to the call of respondToVehicle: receive a
\* record, skip it if it has no serializer, look its socket up, count
HandleAckRecv ==
    /\ routerPc = "recv"
    /\ ackChan # <<>>
    /\ LET record == Head(ackChan)
           labels == Labels(record.TxType)
           socket == GetSocket(registry, record.SocketID)
       IN  /\ ackChan' = Tail(ackChan)
           /\ IF ~record.Serializer
              THEN UNCHANGED <<routerPc, routerRec, routerSocket, reliableAckCount,
                               reliableAckMissCount>>
              ELSE IF socket # NoSocket
              THEN /\ reliableAckCount' = [reliableAckCount EXCEPT ![labels] = @ + 1]
                   /\ routerPc' = "respond"
                   /\ routerRec' = record
                   /\ routerSocket' = socket
                   /\ UNCHANGED reliableAckMissCount
              ELSE /\ reliableAckMissCount' = [reliableAckMissCount EXCEPT ![labels] = @ + 1]
                   /\ UNCHANGED <<routerPc, routerRec, routerSocket, reliableAckCount>>
    /\ UNCHANGED <<ackPosted, respondCalls, respondActive>>
    /\ UNCHANGED <<cfgVars, connVars, registry, idVars>>

\* (variant) respondToVehicle is started on a goroutine of its own and the
\* loop takes the next record at once
RespondStartAsync ==
    /\ routerPc = "respond"
    /\ respondCalls' = [respondCalls EXCEPT ![routerSocket] = @ + 1]
    /\ respondActive' = [respondActive EXCEPT ![routerSocket] = @ + 1]
    /\ routerPc' = "recv"
    /\ UNCHANGED <<ackChan, ackPosted, routerRec, routerSocket,
                   reliableAckCount, reliableAckMissCount>>
    /\ UNCHANGED <<cfgVars, connVars, registry, idVars>>

\* socket.respondToVehicle(record, nil) is called
RespondStart ==
    /\ routerPc = "respond"
    /\ respondCalls' = [respondCalls EXCEPT ![routerSocket] = @ + 1]
    /\ respondActive' = [respondActive EXCEPT ![routerSocket] = @ + 1]
    /\ routerPc' = "writing"
    /\ UNCHANGED <<ackChan, ackPosted, routerRec, routerSocket,
                   reliableAckCount, reliableAckMissCount>>
    /\ UNCHANGED <<cfgVars, connVars, registry, idVars>>

\* respondToVehicle returns; the loop takes the next record
RespondDone ==
    /\ routerPc = "writing"
    /\ respondActive' = [respondActive EXCEPT ![routerSocket] = @ - 1]
    /\ routerPc' = "recv"
    /\ routerRec' = NoRecord
    /\ routerSocket' = NoSocket
    /\ UNCHANGED <<ackChan, ackPosted, reliableAckCount,
                   reliableAckMissCount, respondCalls>>
    /\ UNCHANGED <<cfgVars, connVars, registry, idVars>>

\* ---------------------------------------------------------- specification

Next ==
    \/ \E c \in Conns : Upgrade(c)
    \/ \E c \in Conns : ExtractIdentityStep(c)
    \/ \E c \in Conns : RegisterSocketStep(c)
    \/ \E c \in Conns : DispatchConnected(c)
    \/ \E c \in Conns : ReadFrame(c)
    \/ \E c \in Conns : ExitLoop(c)
    \/ \E c \in Conns : DeregisterSocketStep(c)
    \/ \E c \in Conns : DispatchDisconnected(c)
    \/ \E c \in Conns : SinkAck(c)
    \/ MalformedAck
    \/ HandleAckRecv
    \/ RespondStart
    \/ RespondDone

Spec == Init /\ [][Next]_vars

\* The connection handlers alone, with no record posted on the ack channel.
\* The sinks and handleAcks leave the handlers' variables and the registry
\* unchanged, so the handlers behave in Spec as they do here.
NextConn ==
    \/ \E c \in Conns : Upgrade(c)
    \/ \E c \in Conns : ExtractIdentityStep(c)
    \/ \E c \in Conns : RegisterSocketStep(c)
    \/ \E c \in Conns : DispatchConnected(c)
    \/ \E c \in Conns : ReadFrame(c)
    \/ \E c \in Conns : ExitLoop(c)
    \/ \E c \in Conns : DeregisterSocketStep(c)
    \/ \E c \in Conns : DispatchDisconnected(c)

SpecConn == Init /\ [][NextConn]_vars

\* The whole engine under one TLS mode: handleAcks and the sinks read nothing
\* that depends on how the identity was extracted.
InitRouter == Init /\ tlsMode = DirectTLS

SpecRouter == InitRouter /\ [][Next]_vars

\* ------------------------------------- identity extraction on its own inputs

InitIdentity ==
    /\ tlsMode \in TLSModes
    /\ DispatchRules = RulesWithConnectivity
    /\ pc = [c \in Conns |-> "init"]
    /\ upgraded = [c \in Conns |-> FALSE]
    /\ idKind = [c \in Conns |-> "pending"]
    /\ identity = [c \in Conns |-> NoIdentity]
    /\ events = [c \in Conns |-> <<>>]
    /\ frames = [c \in Conns |-> 0]
    /\ connErrors = [c \in Conns |-> 0]
    /\ registry = [u \in UUIDs |-> NoSocket]
    /\ ackChan = <<>>
    /\ ackPosted = 0
    /\ routerPc = "recv"
    /\ routerRec = NoRecord
    /\ routerSocket = NoSocket
    /\ reliableAckCount = [l \in LabelSet |-> 0]
    /\ reliableAckMissCount = [l \in LabelSet |-> 0]
    /\ respondCalls = [c \in Conns |-> 0]
    /\ respondActive = [c \in Conns |-> 0]
    /\ shutdown = FALSE
    /\ idReq \in Requests
    /\ idResult = NoResult

\* extractIdentity(r, config) is called on the request
CallExtractIdentity ==
    /\ idResult = NoResult
    /\ idResult' = extractIdentity(idReq, tlsMode)
    /\ UNCHANGED <<idReq, cfgVars, connVars, registry, ackVars>>

NextIdentity == CallExtractIdentity

SpecIdentity == InitIdentity /\ [][NextIdentity]_vars

\* The engine with a shutdown request.  The request context of a connection
\* is context.WithValue(context.Background(), ...), which carries no
\* cancellation, and handleAcks ranges over the ack channel with no other
\* exit: no step of the engine reads the shutdown request.
Shutdown ==
    /\ ~shutdown
    /\ shutdown' = TRUE
    /\ UNCHANGED <<tlsMode, DispatchRules, connVars, registry, ackVars, idVars>>

NextShutdown ==
    \/ Next
    \/ Shutdown

\* steps a handler takes on its own; Upgrade, ReadFrame and ExitLoop wait
\* for the peer
HandlerStep(c) ==
    \/ ExtractIdentityStep(c)
    \/ RegisterSocketStep(c)
    \/ DispatchConnected(c)
    \/ DeregisterSocketStep(c)
    \/ DispatchDisconnected(c)

\* steps of the handleAcks goroutine
RouterStep ==
    \/ HandleAckRecv
    \/ RespondStart
    \/ RespondDone

\* goroutines are scheduled fairly: a handler or the router that can take a
\* step of its own eventually takes it
SpecShutdown ==
    /\ Init
    /\ [][NextShutdown]_vars
    /\ \A c \in Conns : WF_vars(HandlerStep(c))
    /\ WF_vars(RouterStep)

\* ================================================================ properties

HasConnectivity == connectitivityTopic \in DOMAIN DispatchRules

\* positions of a record kind in the log of a connection
Positions(c, kind) == {i \in 1..Len(events[c]) : events[c][i].kind = kind}

\* the handler of c has ended, by return or by a panic
Ended(c) == pc[c] \in {"returned", "panicked"}

\* C1 (as claimed): a request whose identity extraction fails is never
\* upgraded, never registered and produces no connectivity record.
C1_IdentityFailureAbortsBeforeUpgrade ==
    \A c \in Conns :
        idKind[c] = "error" =>
            /\ ~upgraded[c]
            /\ GetSocket(registry, UUIDOf(c)) = NoSocket
            /\ Positions(c, CONNECTED) \cup Positions(c, DISCONNECTED) = {}

\* C3: in the log of every connection the CONNECTED record precedes every
\* telemetry record, the DISCONNECTED record follows every telemetry record,
\* and a DISCONNECTED record exists only once the read loop has exited.
C3_ConnectivityBracketsTelemetry ==
    \A c \in Conns :
        /\ \A i \in Positions(c, CONNECTED), j \in Positions(c, Telemetry) : i < j
        /\ \A i \in Positions(c, DISCONNECTED), j \in Positions(c, Telemetry) : j < i
        /\ Positions(c, DISCONNECTED) # {} => pc[c] \in {"returned", "panicked"}
        /\ (HasConnectivity /\ Positions(c, Telemetry) # {}) =>
               (Positions(c, CONNECTED) # {} \/ connErrors[c] > 0)

C3_Witness ==
    \E c \in Conns :
        /\ Positions(c, CONNECTED) # {}
        /\ Positions(c, Telemetry) # {}
        /\ Positions(c, DISCONNECTED) # {}

\* C5 (as claimed): once the handler of a connection has ended, by return or
\* by panic, its UUID is no longer in the registry.
C5_ReleasedOnEveryExit ==
    \A c \in Conns : Ended(c) => GetSocket(registry, UUIDOf(c)) = NoSocket

\* RegisterSocket(sm) has run and DeregisterSocket(sm) has not: the handler
\* is between the two calls, or it panicked in registerSocket and the
\* deferred deregisterSocket was never installed
InRegisteredWindow(c) ==
    \/ pc[c] \in {"registering", "running", "deregistering"}
    \/ pc[c] = "panicked" /\ idKind[c] # "panic"

\* C8: a lookup of sm.uuid returns sm between RegisterSocket(sm) and
\* DeregisterSocket(sm) and absent at any other time, and no socket manager
\* is held under a UUID other than its own.
C8_RegistryLifecycle ==
    /\ \A c \in Conns :
          GetSocket(registry, UUIDOf(c)) = IF InRegisteredWindow(c) THEN c ELSE NoSocket
    /\ \A u \in UUIDs : registry[u] # NoSocket => UUIDOf(registry[u]) = u

C8_Witness ==
    \E c \in Conns :
        /\ pc[c] = "returned"
        /\ upgraded[c]
        /\ GetSocket(registry, UUIDOf(c)) = NoSocket

\* C9: when the dispatch rules omit the connectivity topic, no connectivity
\* record is produced, no connectivity error is logged, no dispatch panics,
\* and the registry still holds the socket after register and not after
\* deregister.
C9_NoConnectivityTopic ==
    ~HasConnectivity =>
        \A c \in Conns :
            /\ Positions(c, CONNECTED) \cup Positions(c, DISCONNECTED) = {}
            /\ connErrors[c] = 0
            /\ pc[c] = "panicked" => idKind[c] = "panic"
            /\ pc[c] \in {"running", "deregistering"} =>
                   GetSocket(registry, UUIDOf(c)) = c
            /\ pc[c] \in {"disconnecting", "returned"} =>
                   GetSocket(registry, UUIDOf(c)) = NoSocket

C9_Witness ==
    /\ ~HasConnectivity
    /\ \E c \in Conns :
          /\ pc[c] = "returned"
          /\ upgraded[c]
          /\ Positions(c, Telemetry) # {}

\* -------------------------------------------------------------- C4

\* number of producers one connectivity record is handed to
NbConnectivityProducers ==
    IF HasConnectivity THEN Len(DispatchRules[connectitivityTopic]) ELSE 0

NbProduced(c, kind) == Cardinality(Positions(c, kind))

\* registerSocket / deregisterSocket has run to its end
RegisterDone(c) ==
    \/ pc[c] \in {"running", "deregistering", "disconnecting"}
    \/ pc[c] = "returned" /\ upgraded[c]
DeregisterDone(c) == pc[c] = "returned" /\ upgraded[c]

RECURSIVE SumOver(_, _)
SumOver(f, S) ==
    IF S = {} THEN 0
    ELSE LET x == CHOOSE y \in S : TRUE IN f[x] + SumOver(f, S \ {x})

\* C2 (as claimed): while a respondToVehicle call of handleAcks is in
\* progress on a socket, the registry still holds that socket.
C2_AckOnlyWhileRegistered ==
    routerPc = "writing" => GetSocket(registry, UUIDOf(routerSocket)) = routerSocket

\* handleAcks takes the record at the head of the ack channel
TakesRecord == routerPc = "recv" /\ ackChan # <<>> /\ ackChan' = Tail(ackChan)

\* the step of handleAcks that takes a record with a serializer: an ACK
\* (count, then the call on the socket the registry holds) or a miss
C6_RouteStep ==
    (TakesRecord /\ Head(ackChan).Serializer) =>
        LET r == Head(ackChan)
            l == Labels(r.TxType)
        IN  IF registry[r.SocketID] # NoSocket
            THEN /\ reliableAckCount' = [reliableAckCount EXCEPT ![l] = @ + 1]
                 /\ reliableAckMissCount' = reliableAckMissCount
                 /\ routerPc' = "respond"
                 /\ routerSocket' = registry[r.SocketID]
                 /\ routerRec' = r
            ELSE /\ reliableAckMissCount' = [reliableAckMissCount EXCEPT ![l] = @ + 1]
                 /\ reliableAckCount' = reliableAckCount
                 /\ routerPc' = "recv"

\* respondToVehicle is called only from the ACK branch, once, on the socket
\* that was looked up
C6_CallStep ==
    /\ respondCalls' # respondCalls =>
          /\ routerPc = "respond"
          /\ respondCalls' = [respondCalls EXCEPT ![routerSocket] = @ + 1]
    /\ (routerPc = "respond" /\ routerPc' # "respond") =>
          /\ routerPc' = "writing"
          /\ respondCalls' = [respondCalls EXCEPT ![routerSocket] = @ + 1]
    /\ ~TakesRecord =>
          /\ reliableAckCount' = reliableAckCount
          /\ reliableAckMissCount' = reliableAckMissCount

\* every counted ACK is one call, made or about to be made
C6_CallsMatchCount ==
    SumOver(respondCalls, Conns) + (IF routerPc = "respond" THEN 1 ELSE 0)
        = SumOver(reliableAckCount, LabelSet)

\* C6: for every record with a serializer that handleAcks takes, if the
\* registry holds its connection id then reliable_ack is incremented once,
\* reliable_ack_miss is unchanged and one respondToVehicle call is made on
\* that socket; otherwise reliable_ack_miss is incremented once and
\* reliable_ack is unchanged; nothing else changes the two counters or
\* calls respondToVehicle.
C6_AckXorMiss == [][C6_RouteStep /\ C6_CallStep]_vars /\ []C6_CallsMatchCount

C6_Witness ==
    \E c \in Conns :
        /\ respondCalls[c] = 1
        /\ reliableAckCount[Labels("V")] = 1
        /\ SumOver(reliableAckMissCount, LabelSet) = 1

\* the step of handleAcks on a record whose UUID the registry does not hold
MissStep(r) ==
    /\ reliableAckMissCount' =
           [reliableAckMissCount EXCEPT ![<<r.TxType, ReliableAckSource(r.TxType)>>] = @ + 1]
    /\ reliableAckCount' = reliableAckCount
    /\ respondCalls' = respondCalls
    /\ routerPc' = "recv"

\* C7 (as claimed): every ack record taken for a UUID that is not registered
\* increments reliable_ack_miss once under its labels, leaves reliable_ack
\* alone, makes no respondToVehicle call and leaves handleAcks receiving.
C7_UnregisteredCountsMiss ==
    [][(TakesRecord /\ registry[Head(ackChan).SocketID] = NoSocket)
          => MissStep(Head(ackChan))]_vars

\* C7 (amended): the same, for every ack record that carries a serializer;
\* a record without a serializer is dropped and counts nothing.
C7_UnregisteredWithSerializerCountsMiss ==
    [][(TakesRecord /\ registry[Head(ackChan).SocketID] = NoSocket)
          => IF Head(ackChan).Serializer
             THEN MissStep(Head(ackChan))
             ELSE /\ reliableAckMissCount' = reliableAckMissCount
                  /\ reliableAckCount' = reliableAckCount
                  /\ respondCalls' = respondCalls
                  /\ routerPc' = "recv"]_vars

\* two records for an unregistered UUID were routed one after the other
C7_Witness ==
    /\ reliableAckMissCount[Labels("V")] = 2
    /\ SumOver(respondCalls, Conns) = 0
    /\ routerPc = "recv"

\* -------------------------------------------------------------- C10

\* the certificate the configured mode reads the identity from
HeaderOf(r, mode) == IF mode = RFC9440 THEN r.chainHeader ELSE r.albHeader

CertificateMissing(r, mode) ==
    IF mode = DirectTLS THEN Len(r.peer) = 0 ELSE ~HeaderOf(r, mode).present

\* C10 (as claimed): extractIdentity ends as an identity whose sender id is
\* client type, ".", device id; as missing_certificate, when the peer chain
\* is empty or the header absent; or as parse_certificate; never by a panic
\* or with another error.
C10_ThreeOutcomes ==
    idResult # NoResult =>
        \/ /\ idResult.kind = "identity"
           /\ ~idResult.identity.isNil
           /\ idResult.identity.SenderID =
                  "vehicle_device" \o "." \o idResult.identity.DeviceID
           /\ idResult.identity.DeviceID \in Subjects
        \/ /\ idResult.kind = "missing_certificate"
           /\ CertificateMissing(idReq, tlsMode)
        \/ /\ idResult.kind = "parse_certificate"
           /\ ~CertificateMissing(idReq, tlsMode)


\* C11: after shutdown is signalled, every connection's read loop eventually
\* exits and its socket is deregistered, no ACK write stays pending, and
\* handleAcks eventually has drained the ack channel.
C11_ShutdownReachesAll ==
    /\ \A c \in Conns :
          (shutdown /\ pc[c] = "running") ~> (pc[c] # "running" /\ registry[UUIDOf(c)] = NoSocket)
    /\ shutdown ~> (routerPc = "recv" /\ ackChan = <<>>)


\* ------------------------------------------------------------- C12

\* records routed so far: each counted once, as an ACK or as a miss
Routed == SumOver(reliableAckCount, LabelSet) + SumOver(reliableAckMissCount, LabelSet)

\* the ack channel changes only by a sink appending one record or by
\* handleAcks, while receiving, removing its head
C12_ChannelStep ==
    ackChan' # ackChan =>
        \/ /\ ackPosted' = ackPosted + 1
           /\ Len(ackChan') = Len(ackChan) + 1
           /\ SubSeq(ackChan', 1, Len(ackChan)) = ackChan
        \/ /\ TakesRecord
           /\ ackPosted' = ackPosted

\* a record is routed in the very step that removes it from the channel
C12_RoutedOnTake ==
    IF TakesRecord /\ Head(ackChan).Serializer
    THEN LET l == Labels(Head(ackChan).TxType) IN
         \/ /\ reliableAckCount' = [reliableAckCount EXCEPT ![l] = @ + 1]
            /\ reliableAckMissCount' = reliableAckMissCount
         \/ /\ reliableAckMissCount' = [reliableAckMissCount EXCEPT ![l] = @ + 1]
            /\ reliableAckCount' = reliableAckCount
    ELSE /\ reliableAckCount' = reliableAckCount
         /\ reliableAckMissCount' = reliableAckMissCount

\* C12: handleAcks is the one consumer of the ack channel: a record leaves
\* the channel only by handleAcks taking its head, every record with a
\* serializer is routed exactly once, in the step that takes it, and no
\* more records are routed than were published and taken.
C12_SingleConsumer ==
    /\ [][C12_ChannelStep /\ C12_RoutedOnTake]_vars
    /\ [](Routed <= ackPosted - Len(ackChan))

\* two records published by the sinks were both taken and routed
C12_Witness ==
    /\ ackPosted = 2
    /\ ackChan = <<>>
    /\ routerPc = "recv"
    /\ Routed = 2


\* ------------------------------------------------------------- C13

\* handleAcks takes a record only when the call for the record before it has
\* returned, and it starts a call only for the record it took last
C13_TakeAfterWrite ==
    /\ TakesRecord =>
          /\ \A c \in Conns : respondActive[c] = 0
          /\ SumOver(respondCalls, Conns) = SumOver(reliableAckCount, LabelSet)
    /\ respondCalls' # respondCalls =>
          /\ routerRec.Serializer
          /\ routerSocket = UUIDOf(routerRec.SocketID)
          /\ respondCalls' = [respondCalls EXCEPT ![routerSocket] = @ + 1]
          /\ ackChan' = ackChan

\* C13: at most one respondToVehicle call of handleAcks is in progress on a
\* socket, and the calls are made in the order the records were taken: each
\* call is for the record taken last and has returned before the next
\* record is taken.
C13_SerialAckWrites ==
    /\ [][C13_TakeAfterWrite]_vars
    /\ [](\A c \in Conns : respondActive[c] <= 1)

\* the second ACK on one socket is being written, the first has returned
C13_Witness ==
    \E c \in Conns :
        /\ respondCalls[c] = 2
        /\ respondActive[c] = 1
        /\ routerPc = "writing"


\* ------------------------------------------------------------- C14

\* C14: when handleAcks takes a record that has no serializer, registered or
\* not, it makes no respondToVehicle call, leaves reliable_ack and
\* reliable_ack_miss as they are and is receiving again at once.
C14_NoSerializerDropped ==
    [][(TakesRecord /\ ~Head(ackChan).Serializer) =>
          /\ reliableAckCount' = reliableAckCount
          /\ reliableAckMissCount' = reliableAckMissCount
          /\ respondCalls' = respondCalls
          /\ respondActive' = respondActive
          /\ routerPc' = "recv"
          /\ routerRec' = routerRec]_vars

\* two records without a serializer were posted and taken and the socket is
\* registered: the channel is empty again and nothing was counted or written
C14_Witness ==
    \E c \in Conns :
        /\ registry[UUIDOf(c)] = c
        /\ events[c] = <<>>
        /\ ackPosted = 2
        /\ ackChan = <<>>
        /\ Routed = 0
        /\ respondCalls[c] = 0


\* ------------------------------------------------------------- C15

\* the record carries a serializer and its tx type has no reliable-ack source
NoAckSource(r) == r.Serializer /\ ReliableAckSource(r.TxType) = ""

\* C15: a record with a serializer whose tx type has no entry in
\* ReliableAckSources is routed like any other, under an empty dispatcher
\* label: reliable_ack is incremented and respondToVehicle is called if the
\* registry holds its socket, reliable_ack_miss is incremented if not.
C15_NoSourceStillRouted ==
    [][/\ (TakesRecord /\ NoAckSource(Head(ackChan))) =>
             LET r == Head(ackChan)
                 l == <<r.TxType, "">>
             IN  IF GetSocket(registry, r.SocketID) # NoSocket
                 THEN /\ reliableAckCount' = [reliableAckCount EXCEPT ![l] = @ + 1]
                      /\ reliableAckMissCount' = reliableAckMissCount
                      /\ routerPc' = "respond"
                      /\ routerRec' = r
                      /\ routerSocket' = GetSocket(registry, r.SocketID)
                 ELSE /\ reliableAckMissCount' = [reliableAckMissCount EXCEPT ![l] = @ + 1]
                      /\ reliableAckCount' = reliableAckCount
       /\ (routerPc = "respond" /\ NoAckSource(routerRec) /\ routerPc' # routerPc) =>
             respondCalls' = [respondCalls EXCEPT ![routerSocket] = @ + 1]]_vars

\* acks of two connectivity records, which have no reliable-ack source: one
\* written to the registered socket, one counted as a miss
C15_Witness ==
    \E c \in Conns :
        /\ reliableAckCount[<<connectitivityTopic, "">>] = 1
        /\ reliableAckMissCount[<<connectitivityTopic, "">>] = 1
        /\ respondCalls[c] = 1


\* ------------------------------------------------------------- C16

\* the step in which dispatchConnectivityEvent returned an error to
\* registerSocket or deregisterSocket of connection c
C16_ErrorStep(c) ==
    connErrors'[c] # connErrors[c] =>
        /\ connErrors'[c] = connErrors[c] + 1
        /\ registry' = registry
        /\ pc[c] \in {"registering", "disconnecting"}
        /\ pc[c] = "registering" =>
              /\ GetSocket(registry, UUIDOf(c)) = c
              /\ pc'[c] = "running"
        /\ pc[c] = "disconnecting" =>
              /\ GetSocket(registry, UUIDOf(c)) = NoSocket
              /\ pc'[c] = "returned"

\* C16: when dispatchConnectivityEvent returns an error for CONNECTED the
\* socket is registered and the handler enters ProcessTelemetry; when it
\* returns an error for DISCONNECTED the socket is deregistered and the
\* handler returns; the error is only logged.
C16_EmissionErrorNeverBlocks ==
    [][\A c \in Conns : C16_ErrorStep(c)]_vars

\* both emissions of a connection failed: it still processed a frame in
\* between and ended deregistered
C16_Witness ==
    \E c \in Conns :
        /\ connErrors[c] = 2
        /\ frames[c] = 1
        /\ pc[c] = "returned"
        /\ GetSocket(registry, UUIDOf(c)) = NoSocket


\* ------------------------------------------------------------- C17

\* C17: a request whose WebSocket upgrade failed has returned and nothing
\* else happened for it: extractIdentity was not called, no socket manager
\* was created or registered, no record was produced, no frame was read and
\* no connectivity error was logged.
C17_UpgradeFailureStops ==
    \A c \in Conns :
        ~upgraded[c] =>
            /\ pc[c] \in {"init", "returned"}
            /\ idKind[c] = "pending"
            /\ identity[c] = NoIdentity
            /\ GetSocket(registry, UUIDOf(c)) = NoSocket
            /\ events[c] = <<>>
            /\ frames[c] = 0
            /\ connErrors[c] = 0

\* the upgrade of a request failed and its handler returned
C17_Witness ==
    \E c \in Conns : pc[c] = "returned" /\ ~upgraded[c]


\* ------------------------------------------------------------- C18

\* the producers a record kind of connection c was handed to, in call order
ProducersOf(c, kind) ==
    LET recs == SelectSeq(events[c], LAMBDA e : e.kind = kind)
    IN  [i \in 1..Len(recs) |-> recs[i].producer]

\* C18: a connectivity record that was produced was handed to the producers
\* configured for the connectivity topic, each exactly once and in the
\* configured order, with no other record in between.
C18_EveryProducerOnceInOrder ==
    HasConnectivity =>
        \A c \in Conns : \A kind \in {CONNECTED, DISCONNECTED} :
            Positions(c, kind) # {} =>
                /\ ProducersOf(c, kind) = DispatchRules[connectitivityTopic]
                /\ \A i, j \in Positions(c, kind) :
                      \A k \in i..j : k \in Positions(c, kind)

\* both connectivity records of a connection went to both producers and the
\* handler returned, while the one ack a sink posted is still on the channel
C18_Witness ==
    /\ HasConnectivity
    /\ Len(DispatchRules[connectitivityTopic]) = 2
    /\ \E c \in Conns :
          /\ pc[c] = "returned"
          /\ ProducersOf(c, CONNECTED) = DispatchRules[connectitivityTopic]
          /\ ProducersOf(c, DISCONNECTED) = DispatchRules[connectitivityTopic]
    /\ Len(ackChan) = 1
    /\ Routed = 0


\* ------------------------------------------------------------- C19

\* a record of the kind is handed to a producer for connection c in this step
ProducedNow(c, kind) ==
    \E i \in (Len(events[c]) + 1)..Len(events'[c]) : events'[c][i].kind = kind

\* the registry holds c when its CONNECTED record is produced and no longer
\* holds it when its DISCONNECTED record is produced
C19_EmissionStep ==
    \A c \in Conns :
        /\ ProducedNow(c, CONNECTED) =>
              GetSocket(registry, UUIDOf(c)) = c /\ registry' = registry
        /\ ProducedNow(c, DISCONNECTED) =>
              GetSocket(registry, UUIDOf(c)) = NoSocket /\ registry' = registry

\* the ack of a DISCONNECTED record is routed as a miss
C19_AckStep ==
    (TakesRecord /\ Head(ackChan).Serializer /\ Head(ackChan).status = DISCONNECTED)
        => /\ MissStep(Head(ackChan))
           /\ respondActive' = respondActive

\* C19: the registry is changed before the matching connectivity record is
\* produced: CONNECTED is produced while the registry holds the UUID,
\* DISCONNECTED once it no longer does and it is never registered again, so
\* the ack of a DISCONNECTED record counts as reliable_ack_miss and is never
\* written to a socket.
C19_RegistryBeforeEmission ==
    /\ [][C19_EmissionStep /\ C19_AckStep]_vars
    /\ [](\A c \in Conns :
             Positions(c, DISCONNECTED) # {} => GetSocket(registry, UUIDOf(c)) = NoSocket)

\* the one ack posted was for a DISCONNECTED record (no CONNECTED record was
\* produced) and it was counted as a miss
C19_Witness ==
    \E c \in Conns :
        /\ Positions(c, CONNECTED) = {}
        /\ Positions(c, DISCONNECTED) # {}
        /\ ackPosted = 1
        /\ ackChan = <<>>
        /\ reliableAckMissCount[<<connectitivityTopic, "">>] = 1
        /\ respondCalls[c] = 0


\* ------------------------------------------------------------- C20

\* the records connection c handed to producers in this step
NewRecords(c) == SubSeq(events'[c], Len(events[c]) + 1, Len(events'[c]))

\* a call of dispatchConnectivityEvent with the topic configured and an
\* identity present: an error and no record when the build fails, no error
\* and one record per configured producer when it succeeds
C20_CallOutcome ==
    HasConnectivity =>
        \A c \in Conns : \A event \in {CONNECTED, DISCONNECTED} : \A build \in BuildOutcomes :
            ~identity[c].isNil =>
                LET d == dispatchConnectivityEvent(c, event, build) IN
                IF build = "ok"
                THEN /\ d.ret = "nil"
                     /\ Len(d.produced) = Len(DispatchRules[connectitivityTopic])
                     /\ \A i \in 1..Len(d.produced) :
                           d.produced[i] = Produced(event, DispatchRules[connectitivityTopic][i])
                ELSE /\ d.ret = "error"
                     /\ d.produced = <<>>

\* the step of registerSocket or deregisterSocket that makes the call: it
\* logs one error and no producer is handed a record, or it logs none and
\* every configured producer is handed one
C20_DispatchStep ==
    \A c \in Conns :
        (pc[c] \in {"registering", "disconnecting"} /\ pc'[c] # pc[c] /\ HasConnectivity
            /\ pc'[c] # "panicked") =>
            /\ SubSeq(events'[c], 1, Len(events[c])) = events[c]
            /\ \/ /\ connErrors'[c] = connErrors[c] + 1
                  /\ NewRecords(c) = <<>>
               \/ /\ connErrors'[c] = connErrors[c]
                  /\ {NewRecords(c)[i].producer : i \in 1..Len(NewRecords(c))}
                        = {DispatchRules[connectitivityTopic][i] :
                              i \in 1..Len(DispatchRules[connectitivityTopic])}
                  /\ \A i \in 1..Len(NewRecords(c)) :
                        NewRecords(c)[i].kind =
                            (IF pc[c] = "registering" THEN CONNECTED ELSE DISCONNECTED)

\* C20: connectivity emission is all or nothing for each event: when the
\* build of the record fails, dispatchConnectivityEvent returns the error
\* and no producer is handed a record; when it succeeds, every configured
\* producer of the connectivity topic is handed the record.
C20_AllOrNothing ==
    /\ []C20_CallOutcome
    /\ [][C20_DispatchStep]_vars

\* one emission of a connection failed and produced nothing, the other
\* reached every producer
C20_Witness ==
    /\ HasConnectivity
    /\ \E c \in Conns :
          /\ pc[c] = "returned"
          /\ connErrors[c] = 1
          /\ NbProduced(c, CONNECTED) = 0
          /\ NbProduced(c, DISCONNECTED) = NbConnectivityProducers

====
